---- MODULE Spec2Model ----
(***************************************************************************)
(* Authentication and session orchestration of structura:                  *)
(*   - the session store (hooks/useAuth.ts),                                *)
(*   - the operation controller and the action dispatcher of the adaptive  *)
(*     auth form (components/auth/AuthForm/index.tsx),                      *)
(*   - the email confirmation view (components/auth/ConfirmEmailView.tsx).  *)
(* Strings that the code inspects (messages, the 'op' parameter) are       *)
(* sequences of one-character strings, so that includes() and              *)
(* toLowerCase() are computed and not assumed.                             *)
(***************************************************************************)
EXTENDS Integers, Sequences, FiniteSets, TLC

\* ------------------------------------------------------------------ bounds
MaxEvents == 1
MaxCalls == 1

\* ------------------------------------------------------------ JS strings
Null == [null |-> TRUE]

\* String.prototype.includes
Includes(s, pat) ==
  \E i \in 1..(Len(s) - Len(pat) + 1) : SubSeq(s, i, i + Len(pat) - 1) = pat

UpperChars == <<"A","B","C","D","E","F","G","H","I","J","K","L","M","N","O","P","Q","R","S","T","U","V","W","X","Y","Z">>
LowerChars == <<"a","b","c","d","e","f","g","h","i","j","k","l","m","n","o","p","q","r","s","t","u","v","w","x","y","z">>

LowerChar(c) ==
  IF \E i \in 1..Len(UpperChars) : UpperChars[i] = c
  THEN LowerChars[CHOOSE i \in 1..Len(UpperChars) : UpperChars[i] = c]
  ELSE c

\* String.prototype.toLowerCase
ToLowerCase(s) == [i \in 1..Len(s) |-> LowerChar(s[i])]

\* messages the identity source may attach to a failure
MsgInvalidRefreshToken == <<"I", "n", "v", "a", "l", "i", "d", " ", "R", "e", "f", "r", "e", "s", "h", " ", "T", "o", "k", "e", "n">>
MsgRefreshTokenNotFound == <<"r", "e", "f", "r", "e", "s", "h", "_", "t", "o", "k", "e", "n", "_", "n", "o", "t", "_", "f", "o", "u", "n", "d">>
MsgNetworkFailed == <<"N", "e", "t", "w", "o", "r", "k", " ", "f", "a", "i", "l", "e", "d">>
MsgInvalidEmail == <<"I", "n", "v", "a", "l", "i", "d", " ", "e", "m", "a", "i", "l", " ", "o", "r", " ", "p", "a", "s", "s", "w", "o", "r", "d">>

\* substrings looked for by checkSession's catch block
PatRefreshUnderscore == <<"r", "e", "f", "r", "e", "s", "h", "_", "t", "o", "k", "e", "n">>
PatRefreshToken == <<"R", "e", "f", "r", "e", "s", "h", " ", "T", "o", "k", "e", "n">>
PatInvalidRefreshToken == <<"I", "n", "v", "a", "l", "i", "d", " ", "R", "e", "f", "r", "e", "s", "h", " ", "T", "o", "k", "e", "n">>

\* substrings the error classifier looks for (spec section 4.3 and 8)
PatInvalidEmail == <<"I", "n", "v", "a", "l", "i", "d", " ", "e", "m", "a", "i", "l">>
PatAlreadyRegistered == <<"a", "l", "r", "e", "a", "d", "y", " ", "r", "e", "g", "i", "s", "t", "e", "r", "e", "d">>

\* ------------------------------------------------------- sessions, errors
User1 == [id |-> "u1"]

\* Session values the identity source can hand out; the last one carries no
\* user (the code reads session?.user everywhere).
SessionA == [token |-> "a", user |-> User1]
SessionNoUser == [token |-> "b", user |-> Null]
Sessions == {SessionA, SessionNoUser}
SessionValues == Sessions \cup {Null}

\* session?.user ?? null
UserOf(s) == IF s = Null THEN Null ELSE s.user

\* session?.user (truthiness)
HasUser(s) == s # Null /\ s.user # Null

StructuredError ==
  [code |-> "AUTH/INVALID_CREDENTIALS", message |-> MsgInvalidEmail,
   context |-> [hook |-> "server", unexpected |-> FALSE],
   statusCode |-> "401", isOperational |-> TRUE]

\* what the identity source may return in {error} or throw
ErrInvalidRefreshToken == [instanceOfError |-> TRUE, message |-> MsgInvalidRefreshToken, app |-> Null]
ErrRefreshTokenNotFound == [instanceOfError |-> TRUE, message |-> MsgRefreshTokenNotFound, app |-> Null]
ErrNetwork == [instanceOfError |-> TRUE, message |-> MsgNetworkFailed, app |-> Null]
ErrPlainObject == [instanceOfError |-> FALSE, message |-> MsgRefreshTokenNotFound, app |-> Null]
ErrStructured == [instanceOfError |-> TRUE, message |-> MsgInvalidEmail, app |-> StructuredError]

\* what getSession, getUser and signOut may throw inside checkSession
CheckErrors == {ErrInvalidRefreshToken, ErrRefreshTokenNotFound, ErrNetwork, ErrPlainObject}
\* what getSession may throw inside refreshSession
RefreshErrors == {ErrInvalidRefreshToken, ErrNetwork}
\* what a store operation's call may return in {error}, and what it may throw
OpErrors == {ErrNetwork, ErrStructured}
OpThrown == {ErrNetwork}

\* isAppError(e)
isAppError(e) == e.app # Null

ClassifyCode(message) ==
  IF Includes(message, PatInvalidEmail) THEN "AUTH/INVALID_CREDENTIALS"
  ELSE IF Includes(ToLowerCase(message), PatAlreadyRegistered) THEN "AUTH/EMAIL_ALREADY_IN_USE"
  ELSE "AUTH/UNKNOWN"

\* handleClientError(error, context): the error classifier. A caller that
\* has inspected the message itself hands the code over in the context.
handleError(e, context) ==
  IF isAppError(e) THEN e.app
  ELSE [code |-> IF "code" \in DOMAIN context THEN context.code
                 ELSE ClassifyCode(e.message),
        message |-> e.message,
        context |-> context, statusCode |-> "unset",
        isOperational |-> ~context.unexpected]

\* the context object passed to the classifier: {hook: 'useAuth', unexpected?}
\* (its operation and email entries are diagnostic only and are left out)
Ctx(unexpected) == [hook |-> "useAuth", unexpected |-> unexpected]

\* faulty variant: only the 'refresh_token' spelling is recognised
isRefreshTokenError_OnlyUnderscore(e) ==
  e.instanceOfError /\ Includes(e.message, PatRefreshUnderscore)

\* checkSession's catch block, lines 135-139
isRefreshTokenError(e) ==
  /\ e.instanceOfError
  /\ \/ Includes(e.message, PatRefreshUnderscore)
     \/ Includes(e.message, PatRefreshToken)
     \/ Includes(e.message, PatInvalidRefreshToken)

\* ------------------------------------------------------------------ state
VARIABLES
  authUser, session, isLoading, error,  \* useAuth: the four useState cells
  lifecycle,       \* "rendered" | "mounted" | "unmounted" (the session effect)
  isMounted,       \* the flag captured by the session effect's closures
  subscribed,      \* the onAuthStateChange callback is registered
  checkPc,         \* position of checkSession
  fetched,         \* checkSession's local `session`
  caught,          \* the value bound by checkSession's catch, or Null
  pending,         \* store operations awaiting the identity source
  calls,           \* number of store operations started
  lastCall,        \* last completed store operation: reply and return value
  srcSession,      \* identity source: its current session
  srcSignOutReason,\* identity source: reason of the last signOut request
  queue,           \* identity source: events dispatched to the callback
  events,          \* identity source: number of session changes of its own
  cookie,          \* document.cookie: the 'signout-reason' cookie, or Null
  raced,           \* history: an event was delivered between checkSession's
                   \* fetch and its write
  opParam,         \* AuthForm: searchParams.get('op'), Null when missing
  operation,       \* AuthForm: useState operation
  formError,       \* AuthForm: useState error
  emailSent,       \* AuthForm: useState emailSent
  formValues,      \* AuthForm: react-hook-form values
  formPc,          \* AuthForm: effects still to run after the last render
  formLoading,     \* AuthForm: useState isLoading
  isRedirecting,   \* AuthForm: useState isRedirecting
  submitting,      \* AuthForm: the handleFormSubmit call in flight (the
                   \* operation its closure captured, the backend calls it
                   \* has made), or Null
  route,           \* router: the path of the last router.push, or Null
  submits,         \* number of submissions started
  lastSubmit,      \* the last completed handleFormSubmit call, or Null
  cvParams,        \* ConfirmEmailView: token_hash and type of the URL
  cvStatus,        \* ConfirmEmailView: useState status
  cvMessage,       \* ConfirmEmailView: useState message
  cvLifecycle,     \* ConfirmEmailView: "rendered" | "mounted" | "unmounted"
  cvEffectDue,     \* ConfirmEmailView: the verify effect is to run
  cvPending,       \* identity source: verifyOtp calls awaiting an answer
  cvIssued,        \* history: the verifyOtp calls issued by this mount
  cvRenewals,      \* number of times useSearchParams returned a new object
  rtRequest,       \* confirmation route: the GET request being served
  rtPc,            \* confirmation route: "idle" | "verifyOtp" | "responded"
  rtReply,         \* confirmation route: the answer of verifyOtp, or Null
  rtResponse,      \* confirmation route: the response, or Null
  vsStatus,        \* VerificationStatus: 'checking' | 'unverified' | 'verified'
  vsLifecycle,     \* VerificationStatus: "idle" | "rendered" | "mounted" | "unmounted"
  vsPending,       \* VerificationStatus: getUser calls in flight
  vsChecks,        \* VerificationStatus: checkVerification calls issued
  vsIsLoading,     \* VerificationStatus: a resend is in flight
  vsSnackbar,      \* VerificationStatus: "closed" | "success" | "error"
  srcEmailConfirmed, \* identity source: the user's email_confirmed_at is set
  prLifecycle,     \* ProtectedRoute: "idle" | "mounted"
  prSeen,          \* ProtectedRoute: dependencies of the effect's last run
  prPushes,        \* ProtectedRoute: router.push(loginPath) calls so far
  saLifecycle,     \* ServerAuth: "idle" | "mounted"
  saRequired,      \* ServerAuth: the 'required' prop
  saHasAccess,     \* ServerAuth: hasAccess, "null" | "true" | "false"
  saSeen,          \* ServerAuth: dependencies of the effects' last run
  saVerify,        \* ServerAuth: the live verify() of the second effect, or Null
  saVerifyAccess,  \* ServerAuth: verifyAccess() calls of the first effect in flight
  saGrantedFor     \* ServerAuth: the auth state hasAccess was resolved for

storeVars == <<authUser, session, isLoading, error>>
authVars == <<authUser, session, isLoading, error, lifecycle, isMounted,
              subscribed, checkPc, fetched, caught, pending, calls, lastCall,
              srcSession, srcSignOutReason, queue, events, raced>>
cvVars == <<cvParams, cvStatus, cvMessage, cvLifecycle, cvEffectDue,
            cvPending, cvIssued, cvRenewals>>
rtVars == <<rtRequest, rtPc, rtReply, rtResponse>>
vsVars == <<vsStatus, vsLifecycle, vsPending, vsChecks, vsIsLoading,
            vsSnackbar, srcEmailConfirmed>>
prVars == <<prLifecycle, prSeen, prPushes>>
saVars == <<saLifecycle, saRequired, saHasAccess, saSeen, saVerify,
            saVerifyAccess, saGrantedFor>>
pageVars == <<rtVars, vsVars, prVars, saVars>>
\* what an action of one page leaves alone
notRtVars == <<vsVars, prVars, saVars>>
notVsVars == <<rtVars, prVars, saVars>>
notPrVars == <<rtVars, vsVars, saVars>>
notSaVars == <<rtVars, vsVars, prVars>>
viewVars == <<cvVars, pageVars>>
submitVars == <<formLoading, isRedirecting, submitting, route, submits,
                lastSubmit>>
formVars == <<opParam, operation, formError, emailSent, formValues, formPc,
              submitVars>>
vars == <<authUser, session, isLoading, error, lifecycle, isMounted,
          subscribed, checkPc, fetched, caught, pending, calls, lastCall,
          srcSession, srcSignOutReason, queue, events, cookie, raced,
          opParam, operation, formError, emailSent, formValues, formPc,
          formLoading, isRedirecting, submitting, route, submits, lastSubmit,
          cvParams, cvStatus, cvMessage, cvLifecycle, cvEffectDue, cvPending,
          cvIssued, cvRenewals, rtRequest, rtPc, rtReply, rtResponse,
          vsStatus, vsLifecycle, vsPending, vsChecks, vsIsLoading,
          vsSnackbar, srcEmailConfirmed, prLifecycle, prSeen, prPushes,
          saLifecycle, saRequired, saHasAccess, saSeen, saVerify,
          saVerifyAccess, saGrantedFor>>

StoreOps == {"signIn", "signInWithProvider", "signUpWithEmail",
             "resetPassword", "updatePassword", "signOut"}

SignOutReasons == {"USER_ACTION"}

\* serialize('signout-reason', 'user-not-found', {path: '/', maxAge: 5, ...})
SignOutReasonCookie == [value |-> "user-not-found", maxAge |-> 5]

ReplyOk == [kind |-> "ok", raw |-> Null]
Replies ==
  {ReplyOk}
  \cup {[kind |-> "returned", raw |-> e] : e \in OpErrors}
  \cup {[kind |-> "threw", raw |-> e] : e \in OpThrown}

\* the identity source notifies its subscribers
Notify(s) == IF subscribed THEN Append(queue, s) ELSE queue

\* ------------------------------------------------- useAuth: session effect
InitAuth ==
  /\ authUser = Null /\ session = Null /\ isLoading = TRUE /\ error = Null
  /\ lifecycle = "rendered" /\ isMounted = FALSE /\ subscribed = FALSE
  /\ checkPc = "idle" /\ fetched = Null /\ caught = Null
  /\ pending = {} /\ calls = 0 /\ lastCall = Null
  /\ srcSignOutReason = "none"
  /\ queue = <<>> /\ events = 0 /\ raced = FALSE

\* the store of a provider that is already mounted when a page is entered
\* by client-side navigation: the initial check found no session
InitAuthSettled ==
  /\ authUser = Null /\ session = Null /\ isLoading = FALSE /\ error = Null
  /\ lifecycle = "mounted" /\ isMounted = TRUE /\ subscribed = TRUE
  /\ checkPc = "done" /\ fetched = Null /\ caught = Null
  /\ pending = {} /\ calls = 0 /\ lastCall = Null
  /\ srcSession = Null /\ srcSignOutReason = "none"
  /\ queue = <<>> /\ events = 0 /\ raced = FALSE

\* useEffect body, lines 90-183: isMounted = true, the callback is registered
\* and checkSession() runs up to its first await.
SessionEffect ==
  /\ lifecycle = "rendered"
  /\ lifecycle' = "mounted" /\ isMounted' = TRUE /\ subscribed' = TRUE
  /\ checkPc' = "getSession" /\ isLoading' = TRUE
  /\ UNCHANGED <<authUser, session, error, fetched, caught, pending, calls,
                 lastCall, srcSession, srcSignOutReason, queue, cookie,
                 raced>>
  /\ UNCHANGED <<events, formVars, viewVars>>

\* the effect's cleanup, lines 185-188
Cleanup ==
  /\ lifecycle = "mounted"
  /\ lifecycle' = "unmounted" /\ isMounted' = FALSE /\ subscribed' = FALSE
  /\ UNCHANGED <<authUser, session, isLoading, error, checkPc, fetched,
                 caught, pending, calls, lastCall, srcSession,
                 srcSignOutReason, queue, cookie, raced>>
  /\ UNCHANGED <<events, formVars, viewVars>>

\* faulty variant: the finally block writes without looking at isMounted
CheckFinally_Unguarded == isLoading' = FALSE

\* finally block of checkSession, lines 167-171
CheckFinally == isLoading' = (IF isMounted THEN FALSE ELSE isLoading)

\* lines 119-122: the fetched session is mirrored into the store
CheckWrite(s) ==
  IF isMounted /\ s # Null
  THEN session' = s /\ authUser' = UserOf(s)
  ELSE UNCHANGED <<session, authUser>>

\* catch block of checkSession, lines 133-166, followed by finally
CheckCatch(e) ==
  /\ caught' = e
  /\ fetched' = Null
  /\ checkPc' = "caught"
  /\ IF isRefreshTokenError(e)
     THEN IF isMounted
          THEN session' = Null /\ authUser' = Null /\ error' = Null
          ELSE UNCHANGED <<session, authUser, error>>
     ELSE /\ error' = (IF isMounted
                       THEN handleError(e, Ctx(FALSE))
                       ELSE error)
          /\ UNCHANGED <<session, authUser>>
  /\ CheckFinally

\* `await authService.getSession()` resolves, lines 96-100 and 119-132
CheckSessionGetSession ==
  /\ checkPc = "getSession"
  /\ \/ /\ caught' = caught
        /\ IF ~isMounted
           THEN /\ checkPc' = "returned"
                /\ fetched' = Null
                /\ UNCHANGED <<session, authUser>>
                /\ CheckFinally
           ELSE IF HasUser(srcSession)
           THEN /\ checkPc' = "getUser"
                /\ fetched' = srcSession
                /\ UNCHANGED <<session, authUser, isLoading>>
           ELSE /\ checkPc' = "done"
                /\ fetched' = Null
                /\ CheckWrite(srcSession)
                /\ CheckFinally
        /\ error' = error
     \/ \E e \in CheckErrors : CheckCatch(e)
  /\ UNCHANGED <<lifecycle, isMounted, subscribed, pending, calls, lastCall,
                 srcSession, srcSignOutReason, queue, cookie, raced>>
  /\ UNCHANGED <<events, formVars, viewVars>>

\* `await authService.getUser()` resolves, lines 101-105 and 119-132
CheckSessionGetUser ==
  /\ checkPc = "getUser"
  /\ \/ /\ checkPc' = "done"                \* the user exists
        /\ CheckWrite(fetched)
        /\ CheckFinally
        /\ fetched' = Null
        /\ UNCHANGED <<error, caught, srcSignOutReason>>
     \/ /\ checkPc' = "signOut"             \* no user: signOut is requested
        /\ srcSignOutReason' = "USER_NOT_FOUND"
        /\ UNCHANGED <<session, authUser, isLoading, error, caught, fetched>>
     \/ /\ \E e \in CheckErrors : CheckCatch(e)
        /\ UNCHANGED srcSignOutReason
  /\ UNCHANGED <<lifecycle, isMounted, subscribed, pending, calls,
                 lastCall, srcSession, queue, cookie, raced>>
  /\ UNCHANGED <<events, formVars, viewVars>>

\* `await authService.signOut(USER_NOT_FOUND)` resolves, lines 105-116
CheckSessionSignOut ==
  /\ checkPc = "signOut"
  /\ \/ /\ \/ /\ srcSession' = Null  \* signed out at the source
              /\ queue' = Notify(Null)
           \/ UNCHANGED <<srcSession, queue>>  \* {error} returned, ignored
        /\ checkPc' = "userNotFound"
        /\ IF isMounted
           THEN session' = Null /\ authUser' = Null
           ELSE UNCHANGED <<session, authUser>>
        /\ cookie' = SignOutReasonCookie
        /\ CheckFinally
        /\ fetched' = Null
        /\ UNCHANGED <<error, caught>>
     \/ /\ \E e \in CheckErrors : CheckCatch(e)
        /\ UNCHANGED <<srcSession, queue, cookie>>
  /\ UNCHANGED <<lifecycle, isMounted, subscribed, pending, calls,
                 lastCall, srcSignOutReason, raced>>
  /\ UNCHANGED <<events, formVars, viewVars>>

\* the identity source changes its session (token refreshed, signed out
\* elsewhere, session expired) and notifies the subscribers
AuthStateChange ==
  /\ events < MaxEvents
  /\ events' = events + 1
  /\ \E s \in SessionValues \ {srcSession} :
       srcSession' = s /\ queue' = Notify(s)
  /\ UNCHANGED <<authUser, session, isLoading, error, lifecycle, isMounted,
                 subscribed, checkPc, fetched, caught, pending, calls,
                 lastCall, srcSignOutReason, cookie, raced>>
  /\ UNCHANGED <<formVars, viewVars>>

\* the onAuthStateChange callback, lines 174-181
OnAuthStateChange ==
  /\ queue # <<>>
  /\ queue' = Tail(queue)
  /\ IF isMounted
     THEN /\ session' = Head(queue)
          /\ authUser' = UserOf(Head(queue))
          /\ isLoading' = FALSE
     ELSE UNCHANGED <<session, authUser, isLoading>>
  /\ raced' = (raced \/ (isMounted /\ checkPc \in {"getUser", "signOut"}))
  /\ UNCHANGED <<error, lifecycle, isMounted, subscribed, checkPc, fetched,
                 caught, pending, calls, lastCall, srcSession,
                 srcSignOutReason, cookie>>
  /\ UNCHANGED <<events, formVars, viewVars>>

\* -------------------------------------------- useAuth: store operations
\* faulty variant: the catch block swallows the exception and reports success
OpReturn_SwallowsThrown(op, reply) ==
  IF reply.kind \in {"ok", "threw"} THEN Null
  ELSE IF op = "signIn" /\ isAppError(reply.raw) THEN reply.raw.app
  ELSE handleError(reply.raw, Ctx(FALSE))

\* the value of `error` in the object an operation returns, lines 199-226
\* (signIn) and the like-shaped bodies of the other five operations
OpReturn(op, reply) ==
  IF reply.kind = "ok" THEN Null
  ELSE IF reply.kind = "threw" THEN handleError(reply.raw, Ctx(TRUE))
  ELSE IF op = "signIn" /\ isAppError(reply.raw) THEN reply.raw.app
  ELSE handleError(reply.raw, Ctx(FALSE))

\* try-block prologue shared by every operation: setIsLoading(true),
\* setError(null), then the identity source is called
OpPrologue(op) ==
  /\ lifecycle = "mounted"
  /\ op \notin pending
  /\ calls < MaxCalls
  /\ pending' = pending \cup {op}
  /\ calls' = calls + 1
  /\ isLoading' = TRUE
  /\ error' = Null
  /\ lastCall' = Null

\* an operation is called by a consumer of the store
OpStart(op) ==
  /\ OpPrologue(op)
  /\ UNCHANGED <<authUser, session, lifecycle, isMounted, subscribed, checkPc,
                 fetched, caught, srcSession, queue, cookie, raced>>
  /\ UNCHANGED <<events, formVars, viewVars>>

\* the identity source answers; the operation returns through finally
OpEpilogue(op, reply) ==
  /\ op \in pending
  /\ pending' = pending \ {op}
  /\ lastCall' = [op |-> op, reply |-> reply,
                  ret |-> [threw |-> FALSE, error |-> OpReturn(op, reply)]]
  /\ isLoading' = FALSE

\* the operation returns to a consumer of the store
OpComplete(op, reply) ==
  /\ OpEpilogue(op, reply)
  /\ UNCHANGED <<authUser, session, error, lifecycle, isMounted, subscribed,
                 checkPc, fetched, caught, calls, srcSignOutReason, cookie,
                 raced>>
  /\ UNCHANGED <<events, formVars, viewVars>>

\* lines 192-230
SignIn == OpStart("signIn") /\ UNCHANGED srcSignOutReason

SignInResolves ==
  \E reply \in Replies :
    /\ OpComplete("signIn", reply)
    /\ IF reply.kind = "ok"
       THEN /\ srcSession' = SessionA
            /\ queue' = Notify(SessionA)
       ELSE UNCHANGED <<srcSession, queue>>

\* lines 233-261
SignInWithProvider == OpStart("signInWithProvider") /\ UNCHANGED srcSignOutReason

SignInWithProviderResolves ==
  \E reply \in Replies :
    OpComplete("signInWithProvider", reply) /\ UNCHANGED <<srcSession, queue>>

\* lines 264-295
SignUpWithEmail == OpStart("signUpWithEmail") /\ UNCHANGED srcSignOutReason

SignUpWithEmailResolves ==
  \E reply \in Replies :
    OpComplete("signUpWithEmail", reply) /\ UNCHANGED <<srcSession, queue>>

\* lines 298-326
ResetPassword == OpStart("resetPassword") /\ UNCHANGED srcSignOutReason

ResetPasswordResolves ==
  \E reply \in Replies :
    OpComplete("resetPassword", reply) /\ UNCHANGED <<srcSession, queue>>

\* lines 329-355
UpdatePassword == OpStart("updatePassword") /\ UNCHANGED srcSignOutReason

UpdatePasswordResolves ==
  \E reply \in Replies :
    OpComplete("updatePassword", reply) /\ UNCHANGED <<srcSession, queue>>

\* lines 358-384
SignOut ==
  \E reason \in SignOutReasons :
    OpStart("signOut") /\ srcSignOutReason' = reason

SignOutResolves ==
  \E reply \in Replies :
    /\ OpComplete("signOut", reply)
    /\ IF reply.kind = "ok"
       THEN srcSession' = Null /\ queue' = Notify(Null)
       ELSE UNCHANGED <<srcSession, queue>>

\* lines 387-392: refreshSession up to its await
RefreshSession == OpStart("refreshSession") /\ UNCHANGED srcSignOutReason

\* lines 392-404: getSession resolves or throws inside refreshSession
RefreshSessionResolves ==
  /\ "refreshSession" \in pending
  /\ pending' = pending \ {"refreshSession"}
  /\ \/ /\ session' = srcSession
        /\ authUser' = UserOf(srcSession)
        /\ error' = error
        /\ lastCall' = [op |-> "refreshSession", reply |-> ReplyOk,
                        ret |-> [threw |-> FALSE, error |-> Null]]
     \/ \E e \in RefreshErrors :
          /\ error' = handleError(e, Ctx(TRUE))
          /\ UNCHANGED <<session, authUser>>
          /\ lastCall' = [op |-> "refreshSession",
                          reply |-> [kind |-> "threw", raw |-> e],
                          ret |-> [threw |-> FALSE, error |-> Null]]
  /\ isLoading' = FALSE
  /\ UNCHANGED <<lifecycle, isMounted, subscribed, checkPc, fetched, caught,
                 calls, srcSession, srcSignOutReason, queue, cookie, raced>>
  /\ UNCHANGED <<events, formVars, viewVars>>

\* lines 421-423
clearError ==
  /\ lifecycle = "mounted"
  /\ error # Null
  /\ error' = Null
  /\ UNCHANGED <<authUser, session, isLoading, lifecycle, isMounted,
                 subscribed, checkPc, fetched, caught, pending, calls,
                 lastCall, srcSession, srcSignOutReason, queue, cookie,
                 raced>>
  /\ UNCHANGED <<events, formVars, viewVars>>

\* ------------------------------------------- AuthForm: operation controller
\* AuthOperationsEnum: the values of the 'op' parameter (spec section 6)
LOGIN == <<"l", "o", "g", "i", "n">>
REGISTER == <<"r", "e", "g", "i", "s", "t", "e", "r">>
FORGOT_PASSWORD == <<"f", "o", "r", "g", "o", "t", "-", "p", "a", "s", "s", "w", "o", "r", "d">>
RESET_PASSWORD == <<"r", "e", "s", "e", "t", "-", "p", "a", "s", "s", "w", "o", "r", "d">>
UPDATE_PASSWORD == <<"u", "p", "d", "a", "t", "e", "-", "p", "a", "s", "s", "w", "o", "r", "d">>
AuthOperationsEnum == {LOGIN, REGISTER, FORGOT_PASSWORD, RESET_PASSWORD, UPDATE_PASSWORD}

UpperChar(c) ==
  IF \E i \in 1..Len(LowerChars) : LowerChars[i] = c
  THEN UpperChars[CHOOSE i \in 1..Len(LowerChars) : LowerChars[i] = c]
  ELSE c

ToUpperCase(s) == [i \in 1..Len(s) |-> UpperChar(s[i])]
Capitalize(s) == [i \in 1..Len(s) |-> IF i = 1 THEN UpperChar(s[i]) ELSE s[i]]

\* values the 'op' query parameter is drawn from
OpStrings ==
  AuthOperationsEnum
  \cup {ToUpperCase(o) : o \in AuthOperationsEnum}
  \cup {Capitalize(o) : o \in AuthOperationsEnum}
  \cup { <<>>, <<"l", "o", "g", "o", "u", "t">>, <<"l", "o", "g", "i", "n", " ">>, <<"R", "e", "s", "e", "t", "_", "P", "a", "s", "s", "w", "o", "r", "d">> }

Missing == [present |-> FALSE, value |-> <<>>]
OpParams == {Missing} \cup {[present |-> TRUE, value |-> v] : v \in OpStrings}

\* faulty variant: the parameter is compared as written, without toLowerCase()
OpOf_CaseSensitive(param) ==
  IF param.present THEN [present |-> TRUE, value |-> param.value] ELSE Missing

\* searchParams.get('op')?.toLowerCase() ?? null, line 75
OpOf(param) ==
  IF param.present THEN [present |-> TRUE, value |-> ToLowerCase(param.value)]
  ELSE Missing

\* the switch of lines 76-91
NewOperation(op) ==
  IF ~op.present THEN LOGIN
  ELSE CASE op.value = LOGIN -> LOGIN
         [] op.value = REGISTER -> REGISTER
         [] op.value = FORGOT_PASSWORD -> FORGOT_PASSWORD
         [] op.value = RESET_PASSWORD -> RESET_PASSWORD
         [] op.value = UPDATE_PASSWORD -> UPDATE_PASSWORD
         [] OTHER -> LOGIN

\* authFormDefaults[operation], authFormDefaults.ts lines 16-44
authFormDefaults(op) ==
  CASE op = LOGIN -> [email |-> "", password |-> ""]
    [] op = REGISTER -> [email |-> "", password |-> "", confirmPassword |-> "",
                         name |-> "", acceptTerms |-> FALSE]
    [] op = FORGOT_PASSWORD -> [email |-> ""]
    [] op = RESET_PASSWORD -> [password |-> "", confirmPassword |-> ""]
    [] op = UPDATE_PASSWORD -> [currentPassword |-> "", newPassword |-> "",
                                confirmPassword |-> ""]

\* what the user has typed into the fields of the current operation
Typed(op) ==
  [f \in DOMAIN authFormDefaults(op) |->
     IF f = "acceptTerms" THEN TRUE ELSE "typed"]

InitForm ==
  /\ opParam \in OpParams
  /\ operation \in AuthOperationsEnum        \* the initialOperation prop
  /\ formError = Null /\ emailSent = FALSE
  /\ formValues = authFormDefaults(operation)
  /\ formPc = "mount"
  /\ formLoading = FALSE /\ isRedirecting = FALSE
  /\ submitting = Null /\ route = Null /\ submits = 0 /\ lastSubmit = Null

\* faulty variant: the transition does not reset the fields
OperationEffectBody_KeepsValues(err) ==
  LET newOperation == NewOperation(OpOf(opParam)) IN
  IF newOperation # operation
  THEN /\ operation' = newOperation
       /\ formError' = Null
       /\ emailSent' = FALSE
       /\ formPc' = "effect"
       /\ UNCHANGED formValues
  ELSE /\ formError' = err
       /\ formPc' = "settled"
       /\ UNCHANGED <<operation, formValues, emailSent>>

\* body of the operation effect, lines 74-100
OperationEffectBody(err) ==
  LET newOperation == NewOperation(OpOf(opParam)) IN
  IF newOperation # operation
  THEN /\ operation' = newOperation
       /\ formValues' = authFormDefaults(newOperation)
       /\ formError' = Null
       /\ emailSent' = FALSE
       /\ formPc' = "effect"      \* `operation` is a dependency: runs again
  ELSE /\ formError' = err
       /\ formPc' = "settled"
       /\ UNCHANGED <<operation, formValues, emailSent>>

\* the two mount effects, lines 49-71 then 74-100, run in one commit
FormMount ==
  /\ formPc = "mount"
  /\ IF cookie # Null /\ cookie.value = "user-not-found"
     THEN /\ cookie' = Null
          /\ OperationEffectBody(
               handleError([instanceOfError |-> TRUE,
                            message |-> <<"U","s","e","r"," ","n","o","t"," ","f","o","u","n","d">>,
                            app |-> Null],
                           Ctx(FALSE)))
     ELSE /\ cookie' = cookie
          /\ OperationEffectBody(formError)
  /\ UNCHANGED <<opParam, submitVars>>
  /\ UNCHANGED <<authVars, viewVars>>

\* the operation effect after a render that changed one of its dependencies
OperationEffect ==
  /\ formPc = "effect"
  /\ OperationEffectBody(formError)
  /\ UNCHANGED <<opParam, cookie, submitVars>>
  /\ UNCHANGED <<authVars, viewVars>>

\* navigation (back/forward, deep link) changes the query string
Navigate ==
  /\ formPc # "mount"
  /\ \E p \in OpParams : p # opParam /\ opParam' = p
  /\ formPc' = "effect"
  /\ UNCHANGED <<operation, formError, emailSent, formValues, cookie,
                 submitVars>>
  /\ UNCHANGED <<authVars, viewVars>>

\* faulty variant: the switch sets the operation state and leaves the URL
handleOperationChange_SetsOperation ==
  /\ formPc # "mount"
  /\ \E newOperation \in AuthOperationsEnum : operation' = newOperation
  /\ UNCHANGED <<opParam, formPc, formError, emailSent, formValues, cookie,
                 submitVars>>
  /\ UNCHANGED <<authVars, viewVars>>

\* handleOperationChange, lines 102-110: rewrites the 'op' parameter
handleOperationChange ==
  /\ formPc # "mount"
  /\ \E newOperation \in AuthOperationsEnum :
       opParam' = [present |-> TRUE, value |-> newOperation]
  /\ formPc' = (IF opParam' = opParam THEN formPc ELSE "effect")
  /\ UNCHANGED <<operation, formError, emailSent, formValues, cookie,
                 submitVars>>
  /\ UNCHANGED <<authVars, viewVars>>

\* the user edits the fields of the displayed form
EditFields ==
  /\ formPc # "mount"
  /\ formValues' = Typed(operation)
  /\ formValues' # formValues
  /\ UNCHANGED <<opParam, operation, formError, emailSent, formPc, cookie,
                 submitVars>>
  /\ UNCHANGED <<authVars, viewVars>>

\* ------------------------------------------- AuthForm: action dispatcher
MaxSubmits == 1

MsgAlreadyRegistered == <<"U", "s", "e", "r", " ", "a", "l", "r", "e", "a", "d", "y", " ", "r", "e", "g", "i", "s", "t", "e", "r", "e", "d">>
MsgAlreadyInUse == <<"E", "m", "a", "i", "l", " ", "A", "l", "r", "e", "a", "d", "y", " ", "I", "n", " ", "U", "s", "e">>
PatAlreadyInUse == <<"a", "l", "r", "e", "a", "d", "y", " ", "i", "n", " ", "u", "s", "e">>

\* the fallback messages of lines 145, 181, 222 and 283
MsgLoginFailed == <<"L", "o", "g", "i", "n", " ", "f", "a", "i", "l", "e", "d">>
MsgRegistrationFailed == <<"R", "e", "g", "i", "s", "t", "r", "a", "t", "i", "o", "n", " ", "f", "a", "i", "l", "e", "d">>
MsgPasswordResetFailed == <<"P", "a", "s", "s", "w", "o", "r", "d", " ", "r", "e", "s", "e", "t", " ", "f", "a", "i", "l", "e", "d">>
MsgPasswordUpdateFailed == <<"P", "a", "s", "s", "w", "o", "r", "d", " ", "u", "p", "d", "a", "t", "e", " ", "f", "a", "i", "l", "e", "d">>

\* the `error` field of a backend action's result: string | AppError | undefined
ResultErrString(m) == [type |-> "string", message |-> m, app |-> Null]
ResultErrApp == [type |-> "object", message |-> StructuredError.message, app |-> StructuredError]
ResultErrUndefined == [type |-> "undefined", message |-> <<>>, app |-> Null]
ResultErrors ==
  {ResultErrString(m) :
     m \in {MsgInvalidEmail, MsgAlreadyRegistered, MsgAlreadyInUse, MsgNetworkFailed}}
  \cup {ResultErrApp, ResultErrUndefined}

\* what a backend action may answer: {success: true}, {success: false,
\* error?} or an exception
FormReplies ==
  {ReplyOk}
  \cup {[kind |-> "failed", raw |-> e] : e \in ResultErrors}
  \cup {[kind |-> "threw", raw |-> e] : e \in OpThrown}

\* new Error(message)
NewError(message) == [instanceOfError |-> TRUE, message |-> message, app |-> Null]

\* typeof result.error === 'string' ? result.error
\*   : result.error?.message || fallback
ErrorMessage(err, fallback) ==
  IF err.type = "string" THEN err.message
  ELSE IF err.type = "object" /\ err.message # <<>> THEN err.message
  ELSE fallback

\* the context objects handed to the classifier by handleFormSubmit (their
\* operation and originalError entries are diagnostic only and are left out;
\* a context without shouldSwitchToLogin reads as a falsy flag)
FormCtx(code, switch) ==
  [hook |-> "AuthForm", unexpected |-> FALSE, code |-> code,
   shouldSwitchToLogin |-> switch]
FormCtxPlain == [hook |-> "AuthForm", unexpected |-> FALSE]

\* faulty variant: the REGISTER branch calls the sign-in action
BackendCall_RegisterSignsIn(op) ==
  CASE op = LOGIN -> "signInWithEmail"
    [] op = REGISTER -> "signInWithEmail"
    [] op = FORGOT_PASSWORD -> "requestPasswordReset"
    [] op = RESET_PASSWORD -> "updatePassword"
    [] op = UPDATE_PASSWORD -> "updateUserPassword"

\* the switch of lines 137-293: the backend call of each operation
BackendCall(op) ==
  CASE op = LOGIN -> "signInWithEmail"
    [] op = REGISTER -> "signUpWithEmail"
    [] op = FORGOT_PASSWORD -> "requestPasswordReset"
    [] op = RESET_PASSWORD -> "updatePassword"
    [] op = UPDATE_PASSWORD -> "updateUserPassword"

\* faulty variant: the provider's other wording is looked for
LoginErrorCode_InvalidLogin(errorMessage) ==
  IF Includes(errorMessage, <<"I", "n", "v", "a", "l", "i", "d", " ", "l", "o", "g", "i", "n">>)
  THEN "AUTH/INVALID_CREDENTIALS"
  ELSE "AUTH/UNKNOWN"

\* line 147
LoginErrorCode(errorMessage) ==
  IF Includes(errorMessage, PatInvalidEmail) THEN "AUTH/INVALID_CREDENTIALS"
  ELSE "AUTH/UNKNOWN"

\* faulty variant: the message is searched as written, without toLowerCase()
IsDuplicateRegistration_CaseSensitive(errorMessage) ==
  \/ Includes(errorMessage, PatAlreadyRegistered)
  \/ Includes(errorMessage, PatAlreadyInUse)

\* lines 184-187
IsDuplicateRegistration(errorMessage) ==
  \/ Includes(ToLowerCase(errorMessage), PatAlreadyRegistered)
  \/ Includes(ToLowerCase(errorMessage), PatAlreadyInUse)

\* what handleFormSubmit does once its await has been answered:
\*   error          the argument of setError, Null when it is not called
\*   switchToLogin  handleOperationChange(LOGIN) is called
\*   push           the argument of router.push, Null when it is not called
\*   emailSent      setEmailSent(true) is called
\*   rejected       the promise returned by handleFormSubmit rejects
NoOutcome ==
  [error |-> Null, switchToLogin |-> FALSE, push |-> Null,
   emailSent |-> FALSE, rejected |-> FALSE]

Failure(appError) == [NoOutcome EXCEPT !.error = appError]
Redirect(path) == [NoOutcome EXCEPT !.push = [path |-> path]]

\* lines 140-169
LoginOutcome(reply) ==
  IF reply.kind = "ok" THEN Redirect("/profile")
  ELSE LET errorMessage == ErrorMessage(reply.raw, MsgLoginFailed) IN
       Failure(handleError(NewError(errorMessage),
                           FormCtx(LoginErrorCode(errorMessage), FALSE)))

\* lines 172-213
RegisterOutcome(reply) ==
  IF reply.kind = "ok" THEN Redirect("/auth/confirm")
  ELSE LET errorMessage == ErrorMessage(reply.raw, MsgRegistrationFailed)
           dup == IsDuplicateRegistration(errorMessage)
           appError == handleError(NewError(errorMessage),
                         IF dup
                         THEN FormCtx("AUTH/EMAIL_ALREADY_IN_USE", TRUE)
                         ELSE FormCtx("AUTH/UNKNOWN", FALSE))
       IN IF appError.context.shouldSwitchToLogin
          THEN [NoOutcome EXCEPT !.switchToLogin = TRUE]
          ELSE Failure(appError)

\* lines 216-229
ForgotPasswordOutcome(reply) ==
  IF reply.kind = "ok" THEN [NoOutcome EXCEPT !.emailSent = TRUE]
  ELSE Failure(handleError(
         NewError(ErrorMessage(reply.raw, MsgPasswordResetFailed)),
         FormCtxPlain))

\* lines 265-274: `error` is what the store's updatePassword returned
ResetPasswordOutcome(storeError) ==
  IF storeError = Null THEN Redirect("/profile") ELSE Failure(storeError)

\* lines 277-291
UpdatePasswordOutcome(reply) ==
  IF reply.kind = "ok" THEN Redirect("/profile")
  ELSE Failure(handleError(
         NewError(ErrorMessage(reply.raw, MsgPasswordUpdateFailed)),
         FormCtxPlain))

\* faulty variant: no catch block, the exception leaves handleFormSubmit
SubmitCatch_Rethrows(op, thrown) == [NoOutcome EXCEPT !.rejected = TRUE]

\* lines 294-300: the catch block
SubmitCatch(op, thrown) == Failure(handleError(thrown, FormCtxPlain))

\* the outcome of a submission made under `op` whose server action answered
ActionOutcome(op, reply) ==
  IF reply.kind = "threw" THEN SubmitCatch(op, reply.raw)
  ELSE CASE op = LOGIN -> LoginOutcome(reply)
         [] op = REGISTER -> RegisterOutcome(reply)
         [] op = FORGOT_PASSWORD -> ForgotPasswordOutcome(reply)
         [] op = UPDATE_PASSWORD -> UpdatePasswordOutcome(reply)

\* handleFormSubmit up to its await, lines 131-140, 173, 217, 267 and 278
\* (the submit button is disabled by !isValid || isLoading || isRedirecting;
\* the RESET_PASSWORD branch runs the store's updatePassword up to its await)
Submit ==
  /\ formPc = "settled" /\ submitting = Null
  /\ ~formLoading /\ ~isRedirecting /\ ~emailSent
  /\ formValues = Typed(operation)
  /\ submits < MaxSubmits
  /\ submits' = submits + 1
  /\ formLoading' = TRUE /\ isRedirecting' = FALSE /\ formError' = Null
  /\ submitting' = [operation |-> operation,
                    calls |-> <<BackendCall(operation)>>]
  /\ lastSubmit' = Null
  /\ IF BackendCall(operation) = "updatePassword"
     THEN OpPrologue("updatePassword")
     ELSE error' = Null /\ UNCHANGED <<isLoading, pending, calls, lastCall>>
  /\ UNCHANGED <<opParam, operation, emailSent, formValues, formPc, route,
                 cookie>>
  /\ UNCHANGED <<authUser, session, lifecycle, isMounted, subscribed, checkPc,
                 fetched, caught, srcSession, srcSignOutReason, queue, events,
                 raced>>
  /\ UNCHANGED viewVars

\* the state writes of handleFormSubmit after its await, and its finally
ApplyOutcome(out, reply) ==
  /\ formError' = (IF out.error # Null THEN out.error ELSE formError)
  /\ opParam' = (IF out.switchToLogin
                 THEN [present |-> TRUE, value |-> LOGIN]
                 ELSE opParam)
  /\ formPc' = (IF opParam' # opParam THEN "effect" ELSE formPc)
  /\ isRedirecting' = (IF out.push # Null THEN TRUE ELSE isRedirecting)
  /\ route' = (IF out.push # Null THEN out.push ELSE route)
  /\ emailSent' = (IF out.emailSent THEN TRUE ELSE emailSent)
  /\ formLoading' = FALSE
  /\ submitting' = Null
  /\ lastSubmit' = [operation |-> submitting.operation,
                    calls |-> submitting.calls,
                    reply |-> reply, outcome |-> out]
  /\ UNCHANGED <<operation, formValues, submits, cookie>>

\* a server action answers handleFormSubmit, lines 140-229 and 278-304
SubmitResolves ==
  /\ submitting # Null
  /\ BackendCall(submitting.operation) # "updatePassword"
  /\ \E reply \in FormReplies :
       ApplyOutcome(ActionOutcome(submitting.operation, reply), reply)
  /\ UNCHANGED <<authVars, viewVars>>

\* the store's updatePassword answers handleFormSubmit, lines 267-274
SubmitResetResolves ==
  /\ submitting # Null
  /\ BackendCall(submitting.operation) = "updatePassword"
  /\ \E reply \in Replies :
       /\ OpEpilogue("updatePassword", reply)
       /\ ApplyOutcome(
            ResetPasswordOutcome(OpReturn("updatePassword", reply)), reply)
  /\ UNCHANGED <<authUser, session, error, lifecycle, isMounted, subscribed,
                 checkPc, fetched, caught, calls, srcSession,
                 srcSignOutReason, queue, events, raced>>
  /\ UNCHANGED viewVars

\* the "Back to Login" button of the email-sent panel, lines 331-334
BackToLogin ==
  /\ emailSent
  /\ emailSent' = FALSE
  /\ opParam' = [present |-> TRUE, value |-> LOGIN]
  /\ formPc' = (IF opParam' # opParam THEN "effect" ELSE formPc)
  /\ UNCHANGED <<operation, formError, formValues, cookie, submitVars>>
  /\ UNCHANGED <<authVars, viewVars>>

\* the "Dismiss" button of the error panel, lines 363-366
Dismiss ==
  /\ formPc # "mount" /\ ~emailSent
  /\ formError # Null
  /\ formError' = Null
  /\ error' = Null
  /\ UNCHANGED <<opParam, operation, emailSent, formValues, formPc, cookie,
                 submitVars>>
  /\ UNCHANGED <<authUser, session, isLoading, lifecycle, isMounted,
                 subscribed, checkPc, fetched, caught, pending, calls,
                 lastCall, srcSession, srcSignOutReason, queue, events,
                 raced>>
  /\ UNCHANGED viewVars

\* ------------------------------------------------------ ConfirmEmailView
MaxRenewals == 2
MaxTicks == 2

TokenHashes == {"h1", "h2"}
OtpTypes == {"signup", "recovery", "email"}

\* searchParams.get(name): null when the parameter is missing, possibly ''
ParamValues(S) ==
  {[present |-> FALSE, value |-> ""], [present |-> TRUE, value |-> ""]}
  \cup {[present |-> TRUE, value |-> v] : v \in S}

\* !value
Falsy(p) == ~p.present \/ p.value = ""

\* lines 17-19: hasInvalidToken
hasInvalidToken(params) == Falsy(params.token_hash) \/ Falsy(params.type)

\* what the view renders, lines 56-79
ConfirmView ==
  IF hasInvalidToken(cvParams) THEN "invalid-token" ELSE cvStatus

\* no ConfirmEmailView on the page
InitViewIdle ==
  /\ cvParams = [token_hash |-> [present |-> FALSE, value |-> ""],
                 type |-> [present |-> FALSE, value |-> ""]]
  /\ cvStatus = "loading" /\ cvMessage = ""
  /\ cvLifecycle = "rendered" /\ cvEffectDue = FALSE
  /\ cvPending = <<>> /\ cvIssued = <<>> /\ cvRenewals = 0

\* the first render, lines 11-19
InitConfirmEmailView ==
  /\ cvParams \in [token_hash : ParamValues(TokenHashes),
                   type : ParamValues(OtpTypes)]
  /\ cvStatus = "loading" /\ cvMessage = ""
  /\ cvLifecycle = "rendered" /\ cvEffectDue = TRUE
  /\ cvPending = <<>> /\ cvIssued = <<>> /\ cvRenewals = 0

\* faulty variant: only token_hash is looked at before verifying
ShouldVerify_TokenOnly(params) == ~Falsy(params.token_hash)

\* the guard of the effect, line 25
ShouldVerify(params) == ~(Falsy(params.token_hash) \/ Falsy(params.type))

\* the verify effect, lines 21-49, up to the await of verifyOtp
VerifyEffect ==
  /\ cvLifecycle # "unmounted" /\ cvEffectDue
  /\ cvEffectDue' = FALSE
  /\ cvLifecycle' = "mounted"
  /\ IF ShouldVerify(cvParams)
     THEN LET call == [token_hash |-> cvParams.token_hash.value,
                       type |-> cvParams.type.value]
          IN /\ cvPending' = Append(cvPending, call)
             /\ cvIssued' = Append(cvIssued, call)
     ELSE UNCHANGED <<cvPending, cvIssued>>
  /\ UNCHANGED <<cvParams, cvStatus, cvMessage, cvRenewals, cookie>>
  /\ UNCHANGED <<authVars, formVars, pageVars>>

\* useSearchParams returns a new object holding the same token_hash and type
\* (another part of the query string changed): the effect's dependency
\* [searchParams] has changed and the effect runs again
SearchParamsRenewed ==
  /\ cvLifecycle = "mounted"
  /\ cvRenewals < MaxRenewals
  /\ cvRenewals' = cvRenewals + 1
  /\ cvEffectDue' = TRUE
  /\ UNCHANGED <<cvParams, cvStatus, cvMessage, cvLifecycle, cvPending,
                 cvIssued, cookie>>
  /\ UNCHANGED <<authVars, formVars, pageVars>>

\* what verifyOtp may answer: {error: null}, {error} with or without a
\* message, or an exception
VerifyReplies ==
  {[kind |-> "ok", message |-> ""],
   [kind |-> "returned", message |-> "Token has expired or is invalid"],
   [kind |-> "returned", message |-> ""],
   [kind |-> "threw", message |-> "Network failed"]}

\* verifyOtp answers, lines 36-46 (the writes are not guarded by a mounted
\* flag)
VerifyResolves ==
  /\ cvPending # <<>>
  /\ cvPending' = Tail(cvPending)
  /\ \E reply \in VerifyReplies :
       CASE reply.kind = "ok" ->
              /\ cvStatus' = "success"
              /\ cvMessage' = "Email confirmed! You can now log in."
         [] reply.kind = "returned" ->
              /\ cvStatus' = "error"
              /\ cvMessage' = (IF reply.message # "" THEN reply.message
                               ELSE "Failed to confirm email.")
         [] reply.kind = "threw" ->
              /\ cvStatus' = "error"
              /\ cvMessage' = "Unexpected error during confirmation."
  /\ UNCHANGED <<cvParams, cvLifecycle, cvEffectDue, cvIssued, cvRenewals,
                 cookie>>
  /\ UNCHANGED <<authVars, formVars, pageVars>>

\* the "Go to Login" button, line 74, after which the view is left
GoToLogin ==
  /\ cvLifecycle = "mounted"
  /\ ConfirmView = "success"
  /\ route' = [path |-> "/auth"]
  /\ cvLifecycle' = "unmounted"
  /\ UNCHANGED <<cvParams, cvStatus, cvMessage, cvEffectDue, cvPending,
                 cvIssued, cvRenewals, cookie>>
  /\ UNCHANGED <<opParam, operation, formError, emailSent, formValues, formPc,
                 formLoading, isRedirecting, submitting, submits, lastSubmit>>
  /\ UNCHANGED <<authVars, pageVars>>

\* ------------------------------------------- email confirmation route (GET)
\* URLs are records of an origin, a pathname and the list of the query's
\* <<name, value>> pairs; all three are computed from the characters.
HttpsScheme == <<"h", "t", "t", "p", "s", ":", "/", "/">>
HttpScheme == <<"h", "t", "t", "p", ":", "/", "/">>
AppOrigin == <<"h", "t", "t", "p", "s", ":", "/", "/", "a", "p", "p", ".", "e", "x", "a", "m", "p", "l", "e">>
DevOrigin == <<"h", "t", "t", "p", ":", "/", "/", "l", "o", "c", "a", "l", "h", "o", "s", "t", ":", "3", "0", "0", "0">>
Origins == {AppOrigin, DevOrigin}
ProfilePath == <<"/", "p", "r", "o", "f", "i", "l", "e">>
ErrorPagePath == <<"/", "a", "u", "t", "h", "/", "a", "u", "t", "h", "-", "c", "o", "d", "e", "-", "e", "r", "r", "o", "r">>
KeyTokenHash == <<"t", "o", "k", "e", "n", "_", "h", "a", "s", "h">>
KeyType == <<"t", "y", "p", "e">>
KeyVerified == <<"v", "e", "r", "i", "f", "i", "e", "d">>
KeyCode == <<"c", "o", "d", "e">>
ValTrue == <<"t", "r", "u", "e">>
CodeInvalidLink == <<"i", "n", "v", "a", "l", "i", "d", "_", "v", "e", "r", "i", "f", "i", "c", "a", "t", "i", "o", "n", "_", "l", "i", "n", "k">>
CodeVerificationFailed == <<"v", "e", "r", "i", "f", "i", "c", "a", "t", "i", "o", "n", "_", "f", "a", "i", "l", "e", "d">>
CodeServerError == <<"s", "e", "r", "v", "e", "r", "_", "e", "r", "r", "o", "r">>

\* values of the 'next' parameter a link can carry
NextDashboard == <<"/", "d", "a", "s", "h", "b", "o", "a", "r", "d">>
NextWithSecrets == <<"/", "w", "e", "l", "c", "o", "m", "e", "?", "t", "o", "k", "e", "n", "_", "h", "a", "s", "h", "=", "a", "b", "c", "&", "t", "y", "p", "e", "=", "s", "i", "g", "n", "u", "p", "&", "t", "a", "b", "=", "2">>
NextAbsolute == <<"h", "t", "t", "p", "s", ":", "/", "/", "e", "v", "i", "l", ".", "e", "x", "a", "m", "p", "l", "e", "/", "s", "t", "e", "a", "l", "?", "t", "y", "p", "e", "=", "x">>
NextProtocolRelative == <<"/", "/", "e", "v", "i", "l", ".", "e", "x", "a", "m", "p", "l", "e", "/", "s", "t", "e", "a", "l">>
NextValues ==
  {[present |-> FALSE, value |-> <<>>], [present |-> TRUE, value |-> <<>>],
   [present |-> TRUE, value |-> NextDashboard],
   [present |-> TRUE, value |-> NextWithSecrets],
   [present |-> TRUE, value |-> NextAbsolute],
   [present |-> TRUE, value |-> NextProtocolRelative]}

StartsWith(s, prefix) ==
  /\ Len(s) >= Len(prefix)
  /\ SubSeq(s, 1, Len(prefix)) = prefix

\* the least index of a character of chars in s, Len(s) + 1 when there is none
FirstOf(s, chars) ==
  IF \E i \in 1..Len(s) : s[i] \in chars
    THEN CHOOSE i \in 1..Len(s) :
           /\ s[i] \in chars
           /\ \A j \in 1..(i - 1) : s[j] \notin chars
    ELSE Len(s) + 1

Drop(s, n) == SubSeq(s, n + 1, Len(s))

RECURSIVE ParseQuery(_)
\* URLSearchParams of a query string without its leading "?"
ParseQuery(q) ==
  IF q = <<>> THEN <<>>
  ELSE LET amp == FirstOf(q, {"&"})
           item == SubSeq(q, 1, amp - 1)
           eq == FirstOf(item, {"="})
           pair == <<SubSeq(item, 1, eq - 1), Drop(item, eq)>>
       IN IF item = <<>> THEN ParseQuery(Drop(q, amp))
          ELSE <<pair>> \o ParseQuery(Drop(q, amp))

\* pathname and query of what follows the host
PathAndQuery(origin, rest) ==
  LET qm == FirstOf(rest, {"?"})
      path == SubSeq(rest, 1, qm - 1)
  IN [origin |-> origin,
      pathname |-> IF path = <<>> THEN <<"/">> ELSE path,
      query |-> ParseQuery(Drop(rest, qm))]

SchemeOf(origin) == SubSeq(origin, 1, FirstOf(origin, {":"}))

\* new URL(input, base) for a base that is an origin
NewURL(input, base) ==
  LET absolute(scheme) ==
        LET afterScheme == Drop(input, Len(scheme))
            hostEnd == FirstOf(afterScheme, {"/", "?"})
        IN PathAndQuery(scheme \o SubSeq(afterScheme, 1, hostEnd - 1),
                        Drop(afterScheme, hostEnd - 1))
  IN IF StartsWith(input, HttpsScheme) THEN absolute(HttpsScheme)
     ELSE IF StartsWith(input, HttpScheme) THEN absolute(HttpScheme)
     ELSE IF StartsWith(input, <<"/", "/">>)
       THEN LET afterSlashes == Drop(input, 2)
                hostEnd == FirstOf(afterSlashes, {"/", "?"})
            IN PathAndQuery(SchemeOf(base) \o <<"/", "/">>
                              \o SubSeq(afterSlashes, 1, hostEnd - 1),
                            Drop(afterSlashes, hostEnd - 1))
     ELSE IF StartsWith(input, <<"/">>) THEN PathAndQuery(base, input)
     ELSE PathAndQuery(base, <<"/">> \o input)

\* url.searchParams.delete(name)
SearchParamsDelete(url, name) ==
  [url EXCEPT !.query = SelectSeq(url.query, LAMBDA p : p[1] # name)]

\* url.searchParams.set(name, value): the first pair of that name takes the
\* value and the others are removed, or the pair is appended
SearchParamsSet(url, name, value) ==
  LET q == url.query
      first == FirstOf([i \in 1..Len(q) |-> IF q[i][1] = name THEN "hit"
                                             ELSE "miss"], {"hit"})
      kept == [i \in 1..Len(q) |->
                 IF i = first THEN <<"keep", <<name, value>>>>
                 ELSE IF q[i][1] = name THEN <<"drop", q[i]>>
                 ELSE <<"keep", q[i]>>]
      pairs == [i \in 1..Len(SelectSeq(kept, LAMBDA k : k[1] = "keep")) |->
                  SelectSeq(kept, LAMBDA k : k[1] = "keep")[i][2]]
  IN [url EXCEPT !.query = IF first > Len(q) THEN Append(q, <<name, value>>)
                           ELSE pairs]

\* searchParams.get(name) of the request, a present/absent value
Requests ==
  [origin : Origins,
   token_hash : ParamValues(TokenHashes),
   type : ParamValues({"signup"}),
   next : NextValues]

\* searchParams.get('next') || '/profile', line 706
NextOrDefault(request) ==
  IF request.next.present /\ request.next.value # <<>>
    THEN request.next.value
    ELSE ProfilePath

\* faulty variant: only token_hash is removed from the redirect link
RedirectTo_KeepsType(request) ==
  SearchParamsDelete(NewURL(NextOrDefault(request), request.origin),
                     KeyTokenHash)

\* lines 716-718: the redirect link without the secret token
RedirectTo(request) ==
  SearchParamsDelete(
    SearchParamsDelete(NewURL(NextOrDefault(request), request.origin),
                       KeyTokenHash),
    KeyType)

\* NextResponse.redirect(url); applySecurityHeaders adds headers only
RedirectResponse(url) == [kind |-> "redirect", url |-> url]

\* faulty variant: the error page is redirected to without a code
InvalidLinkResponse_NoCode(request) ==
  RedirectResponse(NewURL(ErrorPagePath, request.origin))

\* lines 793-797
InvalidLinkResponse(request) ==
  RedirectResponse(SearchParamsSet(NewURL(ErrorPagePath, request.origin),
                                   KeyCode, CodeInvalidLink))

\* lines 740-743
VerifiedResponse(request) ==
  RedirectResponse(SearchParamsSet(RedirectTo(request), KeyVerified, ValTrue))

\* handleApiError(error, request, context) and the withApiErrorHandler
\* wrapper: a redirect to the error page that carries the error's code
handleApiError(code, request) ==
  RedirectResponse(SearchParamsSet(NewURL(ErrorPagePath, request.origin),
                                   KeyCode, code))

InitRouteIdle ==
  /\ rtRequest = Null /\ rtPc = "idle" /\ rtReply = Null /\ rtResponse = Null

InitRoute ==
  /\ rtRequest \in Requests /\ rtPc = "received"
  /\ rtReply = Null /\ rtResponse = Null

\* GET, lines 702-720 and 779-797: up to the await of verifyOtp, or the
\* redirect to the error page when a parameter is missing
RouteGET ==
  /\ rtPc = "received"
  /\ IF ~Falsy(rtRequest.token_hash) /\ ~Falsy(rtRequest.type)
       THEN rtPc' = "verifyOtp" /\ rtResponse' = Null
       ELSE rtPc' = "responded"
            /\ rtResponse' = InvalidLinkResponse(rtRequest)
  /\ UNCHANGED <<rtRequest, rtReply, authVars, formVars, cookie, cvVars, notRtVars>>

VerifyOtpReplies == {"accepted", "rejected", "threw"}

\* GET, lines 724-777: after the await of verifyOtp
RouteVerifyOtpResolves ==
  /\ rtPc = "verifyOtp"
  /\ \E reply \in VerifyOtpReplies :
       /\ rtReply' = [kind |-> reply]
       /\ rtResponse' =
            CASE reply = "accepted" -> VerifiedResponse(rtRequest)
              [] reply = "rejected" ->
                   handleApiError(CodeVerificationFailed, rtRequest)
              [] reply = "threw" -> handleApiError(CodeServerError, rtRequest)
  /\ rtPc' = "responded"
  /\ UNCHANGED <<rtRequest, authVars, formVars, cookie, cvVars, notRtVars>>

\* ------------------------------------------------------ VerificationStatus
InitPollIdle ==
  /\ vsStatus = "checking" /\ vsLifecycle = "idle"
  /\ vsPending = 0 /\ vsChecks = 0 /\ srcEmailConfirmed = FALSE
  /\ vsIsLoading = FALSE /\ vsSnackbar = "closed"

\* the first render, line 17: the session's email is not confirmed yet
InitVerificationStatus ==
  /\ vsStatus = "checking" /\ vsLifecycle = "rendered"
  /\ vsPending = 0 /\ vsChecks = 0 /\ srcEmailConfirmed = FALSE
  /\ vsIsLoading = FALSE /\ vsSnackbar = "closed"

\* checkVerification up to its await, lines 26-33
CheckVerificationStart ==
  /\ vsStatus' = "checking"
  /\ vsPending' = vsPending + 1
  /\ vsChecks' = vsChecks + 1

\* the poll effect, lines 82-86: a first check, then the interval is set
PollEffect ==
  /\ vsLifecycle = "rendered"
  /\ vsLifecycle' = "mounted"
  /\ CheckVerificationStart
  /\ UNCHANGED <<vsIsLoading, vsSnackbar, srcEmailConfirmed, authVars, formVars, cookie, cvVars,
                 notVsVars>>

\* setInterval(checkVerification, 30000), line 85: the interval fires for as
\* long as the effect's cleanup has not cleared it
IntervalTick ==
  /\ vsLifecycle = "mounted"
  /\ vsChecks <= MaxTicks
  /\ CheckVerificationStart
  /\ UNCHANGED <<vsLifecycle, vsIsLoading, vsSnackbar, srcEmailConfirmed,
                 authVars, formVars, cookie, cvVars, notVsVars>>

GetUserReplies == {"user", "error"}

\* checkVerification after its await, lines 33-45
CheckVerificationResolves ==
  /\ vsPending > 0
  /\ vsPending' = vsPending - 1
  /\ \E reply \in GetUserReplies :
       vsStatus' = IF reply = "user" /\ srcEmailConfirmed THEN "verified"
                   ELSE "unverified"
  /\ UNCHANGED <<vsLifecycle, vsChecks, vsIsLoading, vsSnackbar,
                 srcEmailConfirmed, authVars, formVars, cookie, cvVars,
                 notVsVars>>

\* the user follows the confirmation link: email_confirmed_at is set
EmailConfirmed ==
  /\ vsLifecycle # "idle"
  /\ ~srcEmailConfirmed
  /\ srcEmailConfirmed' = TRUE
  /\ UNCHANGED <<vsStatus, vsLifecycle, vsPending, vsChecks, vsIsLoading,
                 vsSnackbar, authVars, formVars, cookie, cvVars, notVsVars>>

\* the effect's cleanup, line 86: clearInterval
PollCleanup ==
  /\ vsLifecycle = "mounted"
  /\ vsLifecycle' = "unmounted"
  /\ UNCHANGED <<vsStatus, vsPending, vsChecks, vsIsLoading, vsSnackbar,
                 srcEmailConfirmed, authVars, formVars, cookie, cvVars,
                 notVsVars>>

\* what VerificationStatus renders, lines 89-125
PollView ==
  CASE vsStatus = "verified" -> "nothing"
    [] vsStatus = "checking" -> "checking"
    [] OTHER -> "banner"

\* handleResendVerification up to its await, lines 48-58; the button is in
\* the banner and disabled while a resend is in flight
ResendVerification ==
  /\ vsLifecycle = "mounted" /\ PollView = "banner" /\ ~vsIsLoading
  /\ vsIsLoading' = TRUE
  /\ UNCHANGED <<vsStatus, vsLifecycle, vsPending, vsChecks, vsSnackbar,
                 srcEmailConfirmed, authVars, formVars, cookie, cvVars,
                 notVsVars>>

ResendReplies == {"sent", "error"}

\* handleResendVerification after its await, lines 60-79
ResendResolves ==
  /\ vsIsLoading
  /\ vsIsLoading' = FALSE
  /\ \E reply \in ResendReplies :
       vsSnackbar' = IF reply = "sent" THEN "success" ELSE "error"
  /\ UNCHANGED <<vsStatus, vsLifecycle, vsPending, vsChecks,
                 srcEmailConfirmed, authVars, formVars, cookie, cvVars,
                 notVsVars>>

\* the Snackbar's onClose, line 119
SnackbarClose ==
  /\ vsLifecycle = "mounted" /\ PollView = "banner"
  /\ vsSnackbar # "closed"
  /\ vsSnackbar' = "closed"
  /\ UNCHANGED <<vsStatus, vsLifecycle, vsPending, vsChecks, vsIsLoading,
                 srcEmailConfirmed, authVars, formVars, cookie, cvVars,
                 notVsVars>>

\* ---------------------------------------------------------- ProtectedRoute
LoginPath == [path |-> "/auth"]

InitProtectedRouteIdle ==
  /\ prLifecycle = "idle" /\ prSeen = Null /\ prPushes = 0

\* the first render below the provider, lines 23-30 (redirectUnauthenticated
\* and loginPath have their default values)
InitProtectedRoute ==
  /\ prLifecycle = "mounted" /\ prSeen = Null /\ prPushes = 0

\* the values of useAuthContext() the effect depends on, lines 29 and 36
GuardDeps == [authUser |-> authUser, isLoading |-> isLoading]

\* line 33, with redirectUnauthenticated = true
ShouldRedirect == ~isLoading /\ authUser = Null

\* useEffect, lines 32-36: runs after the first render and after every
\* render in which authUser or isLoading changed
ProtectedRouteEffect ==
  /\ prLifecycle = "mounted"
  /\ prSeen # GuardDeps
  /\ prSeen' = GuardDeps
  /\ IF ShouldRedirect
       THEN route' = LoginPath /\ prPushes' = prPushes + 1
       ELSE UNCHANGED <<route, prPushes>>
  /\ UNCHANGED <<prLifecycle, opParam, operation, formError, emailSent,
                 formValues, formPc, formLoading, isRedirecting, submitting,
                 submits, lastSubmit>>
  /\ UNCHANGED <<authVars, cookie, cvVars, notPrVars>>

\* what ProtectedRoute renders, lines 38-49
GuardView ==
  IF isLoading \/ authUser = Null THEN "fallback" ELSE "children"

\* -------------------------------------------------------------- ServerAuth
InitServerAuthIdle ==
  /\ saLifecycle = "idle" /\ saRequired = TRUE /\ saHasAccess = "null"
  /\ saSeen = Null /\ saVerify = Null /\ saVerifyAccess = 0
  /\ saGrantedFor = Null

\* the first render of a ServerAuth with a checkAccess callback, lines 63-83
InitServerAuth ==
  /\ saLifecycle = "mounted" /\ saRequired \in BOOLEAN
  /\ saHasAccess = "null"
  /\ saSeen = Null /\ saVerify = Null /\ saVerifyAccess = 0
  /\ saGrantedFor = Null

\* what checkAccess is called with, line 92
AuthState == [authUser |-> authUser, session |-> session]

\* the values the two effects depend on, through checkAccessControl's
\* dependencies (lines 98, 116 and 133)
AccessDeps ==
  [authUser |-> authUser, session |-> session, isLoading |-> isLoading]

\* what ServerAuth renders, lines 135-152
AccessView ==
  IF isLoading THEN "loading"
  ELSE IF saRequired /\ authUser = Null THEN "fallback"
  ELSE IF saHasAccess = "false" THEN "fallback"
  ELSE "children"

\* both effects of one commit, lines 100-116 and 119-133: each returns when
\* the store is loading, else calls checkAccessControl(), which awaits
\* checkAccess(isAuthenticated, authUser, session); the second effect's
\* cleanup turns the previous verify() into a no-op
ServerAuthEffects ==
  /\ saLifecycle = "mounted"
  /\ saSeen # AccessDeps
  /\ saSeen' = AccessDeps
  /\ IF isLoading
       THEN saVerify' = Null /\ UNCHANGED saVerifyAccess
       ELSE /\ saVerifyAccess' = saVerifyAccess + 1
            /\ saVerify' = AuthState
  /\ UNCHANGED <<saLifecycle, saRequired, saHasAccess, saGrantedFor>>
  /\ UNCHANGED <<authVars, formVars, cookie, cvVars, notSaVars>>

\* what awaiting checkAccess gives checkAccessControl, lines 91-97
CheckAccessResults == {"true", "false", "threw"}

\* lines 93-96: a rejected checkAccess counts as no access
AccessOf(result) == result = "true"

\* verifyAccess() of the first effect after its await, lines 105-112
VerifyAccessResolves ==
  /\ saVerifyAccess > 0
  /\ saVerifyAccess' = saVerifyAccess - 1
  /\ \E result \in CheckAccessResults :
       IF saRequired /\ ~AccessOf(result)
         THEN route' = LoginPath
         ELSE UNCHANGED route
  /\ UNCHANGED <<saLifecycle, saRequired, saHasAccess, saSeen, saVerify,
                 saGrantedFor>>
  /\ UNCHANGED <<opParam, operation, formError, emailSent, formValues,
                 formPc, formLoading, isRedirecting, submitting, submits,
                 lastSubmit>>
  /\ UNCHANGED <<authVars, cookie, cvVars, notSaVars>>

\* verify() of the second effect after its await, lines 124-126
AccessVerifyResolves ==
  /\ saVerify # Null
  /\ saVerify' = Null
  /\ \E result \in CheckAccessResults :
       saHasAccess' = IF AccessOf(result) THEN "true" ELSE "false"
  /\ saGrantedFor' = saVerify
  /\ UNCHANGED <<saLifecycle, saRequired, saSeen, saVerifyAccess>>
  /\ UNCHANGED <<authVars, formVars, cookie, cvVars, notSaVars>>

\* no page of the application besides the one under study is open
InitPagesIdle ==
  /\ InitRouteIdle
  /\ InitPollIdle
  /\ InitProtectedRouteIdle
  /\ InitServerAuthIdle

\* the auth form is not on the page
InitFormIdle ==
  /\ cookie = Null
  /\ opParam = Missing /\ operation = LOGIN /\ formError = Null
  /\ emailSent = FALSE /\ formValues = authFormDefaults(LOGIN)
  /\ formPc = "mount"
  /\ formLoading = FALSE /\ isRedirecting = FALSE
  /\ submitting = Null /\ route = Null /\ submits = 0 /\ lastSubmit = Null

\* ---------------------------------------------------------- specifications
\* the session store, its identity source and its consumers' calls
Init ==
  /\ InitAuth
  /\ srcSession \in SessionValues
  /\ cookie = Null
  /\ opParam = Missing /\ operation = LOGIN /\ formError = Null
  /\ emailSent = FALSE /\ formValues = authFormDefaults(LOGIN)
  /\ formPc = "mount"
  /\ formLoading = FALSE /\ isRedirecting = FALSE
  /\ submitting = Null /\ route = Null /\ submits = 0 /\ lastSubmit = Null
  /\ InitViewIdle
  /\ InitPagesIdle

Next ==
  \/ SessionEffect
  \/ Cleanup
  \/ CheckSessionGetSession
  \/ CheckSessionGetUser
  \/ CheckSessionSignOut
  \/ AuthStateChange
  \/ OnAuthStateChange
  \/ SignIn
  \/ SignInResolves
  \/ SignInWithProvider
  \/ SignInWithProviderResolves
  \/ SignUpWithEmail
  \/ SignUpWithEmailResolves
  \/ ResetPassword
  \/ ResetPasswordResolves
  \/ UpdatePassword
  \/ UpdatePasswordResolves
  \/ SignOut
  \/ SignOutResolves
  \/ RefreshSession
  \/ RefreshSessionResolves
  \/ clearError

Spec == Init /\ [][Next]_vars

\* the auth form
InitAuthForm ==
  /\ InitAuthSettled
  /\ cookie \in {Null, SignOutReasonCookie}
  /\ InitForm
  /\ InitViewIdle
  /\ InitPagesIdle

NextForm ==
  \/ FormMount
  \/ OperationEffect
  \/ Navigate
  \/ handleOperationChange
  \/ EditFields
  \/ Submit
  \/ SubmitResolves
  \/ SubmitResetResolves
  \/ BackToLogin
  \/ Dismiss

SpecForm == InitAuthForm /\ [][NextForm]_vars

\* the email confirmation view
InitConfirm ==
  /\ InitAuthSettled
  /\ cookie = Null
  /\ opParam = Missing /\ operation = LOGIN /\ formError = Null
  /\ emailSent = FALSE /\ formValues = authFormDefaults(LOGIN)
  /\ formPc = "mount"
  /\ formLoading = FALSE /\ isRedirecting = FALSE
  /\ submitting = Null /\ route = Null /\ submits = 0 /\ lastSubmit = Null
  /\ InitConfirmEmailView
  /\ InitPagesIdle

NextConfirm ==
  \/ VerifyEffect
  \/ SearchParamsRenewed
  \/ VerifyResolves
  \/ GoToLogin

SpecConfirm == InitConfirm /\ [][NextConfirm]_vars

\* the email confirmation route serving one request
InitRouteSpec ==
  /\ InitAuthSettled
  /\ InitFormIdle
  /\ InitViewIdle
  /\ InitRoute
  /\ InitPollIdle
  /\ InitProtectedRouteIdle
  /\ InitServerAuthIdle

NextRoute ==
  \/ RouteGET
  \/ RouteVerifyOtpResolves

SpecRoute == InitRouteSpec /\ [][NextRoute]_vars

\* the email-verification poll of one mounted VerificationStatus
InitPoll ==
  /\ InitAuthSettled
  /\ InitFormIdle
  /\ InitViewIdle
  /\ InitRouteIdle
  /\ InitVerificationStatus
  /\ InitProtectedRouteIdle
  /\ InitServerAuthIdle

NextPoll ==
  \/ PollEffect
  \/ IntervalTick
  \/ CheckVerificationResolves
  \/ EmailConfirmed
  \/ ResendVerification
  \/ ResendResolves
  \/ SnackbarClose
  \/ PollCleanup

SpecPoll == InitPoll /\ [][NextPoll]_vars

\* a ProtectedRoute below a provider that mounts with it
InitGuard ==
  /\ InitAuth
  /\ srcSession \in SessionValues
  /\ InitFormIdle
  /\ InitViewIdle
  /\ InitRouteIdle
  /\ InitPollIdle
  /\ InitProtectedRoute
  /\ InitServerAuthIdle

NextGuard ==
  \/ SessionEffect
  \/ CheckSessionGetSession
  \/ CheckSessionGetUser
  \/ CheckSessionSignOut
  \/ AuthStateChange
  \/ OnAuthStateChange
  \/ ProtectedRouteEffect

SpecGuard == InitGuard /\ [][NextGuard]_vars

\* a ServerAuth with a checkAccess callback below a provider that mounts
\* with it
InitAccess ==
  /\ InitAuth
  /\ srcSession \in SessionValues
  /\ InitFormIdle
  /\ InitViewIdle
  /\ InitRouteIdle
  /\ InitPollIdle
  /\ InitProtectedRouteIdle
  /\ InitServerAuth

NextAccess ==
  \/ SessionEffect
  \/ CheckSessionGetSession
  \/ CheckSessionGetUser
  \/ CheckSessionSignOut
  \/ AuthStateChange
  \/ OnAuthStateChange
  \/ ServerAuthEffects
  \/ VerifyAccessResolves
  \/ AccessVerifyResolves

SpecAccess == InitAccess /\ [][NextAccess]_vars

\* ------------------------------------------------------------ properties
\* C1: in every reachable state of the session store, session is non-null
\* if and only if authUser is non-null.
C1_SessionUserCoupling == (session # Null) <=> (authUser # Null)

\* C2: when a subscription event was delivered between checkSession's fetch
\* and its write, then once the check has finished and no event is waiting
\* the store holds the most recent event's value, which is the identity
\* source's current session, and not the value the check had fetched.
C2_SubscriptionAuthoritative ==
  (checkPc = "done" /\ raced /\ isMounted /\ queue = <<>>)
    => (session = srcSession /\ authUser = UserOf(srcSession))

C4_RefreshSessionSilence ==
  [][(/\ "refreshSession" \in pending /\ "refreshSession" \notin pending'
      /\ lastCall'.reply.kind = "threw"
      /\ lastCall'.reply.raw.instanceOfError
      /\ \/ Includes(lastCall'.reply.raw.message, PatRefreshUnderscore)
         \/ Includes(lastCall'.reply.raw.message, PatRefreshToken))
     => (session' = Null /\ authUser' = Null /\ error' = Null)]_vars

\* C5: when the initial fetch returned a session with a user and the user
\* lookup returns no user, signOut is requested with reason USER_NOT_FOUND;
\* the check then ends with session = null and authUser = null and with the
\* 'signout-reason' cookie written as 'user-not-found' for 5 seconds.
C5_DeletedAccount ==
  [][/\ (checkPc = "getUser" /\ checkPc' = "signOut")
          => srcSignOutReason' = "USER_NOT_FOUND"
     /\ (checkPc = "signOut" /\ checkPc' # "signOut")
          => /\ session' = Null /\ authUser' = Null
             /\ cookie' = [value |-> "user-not-found", maxAge |-> 5]]_vars

\* C6: after the session effect's cleanup, neither a subscription event nor
\* the resolution of the pending initial check writes to session, authUser,
\* error or isLoading.
C6_NoWriteAfterTeardown ==
  [][(/\ lifecycle = "unmounted"
      /\ \/ checkPc' # checkPc
         \/ Len(queue') < Len(queue))
     => UNCHANGED storeVars]_vars

\* C6 witness: the check resolved after the teardown (it returned at line 98)
\* and isLoading still has the value the check had given it.
C6_Witness ==
  /\ lifecycle = "unmounted" /\ checkPc = "returned"
  /\ isLoading /\ calls = 0 /\ queue = <<>> /\ events > 0

\* C7: after teardown the resolution of a still-pending call performs no
\* state write.
C7_CallsScopedToLifetime ==
  [][lifecycle = "unmounted" => UNCHANGED storeVars]_vars

ErrorCodes == {"AUTH/INVALID_CREDENTIALS", "AUTH/EMAIL_ALREADY_IN_USE", "AUTH/UNKNOWN"}

\* C8: each of the six operations sets isLoading and clears error before it
\* calls the identity source; it never throws, returns {error: null} when
\* the identity source reports no error and a classified AppError (a code
\* of the taxonomy, the original message) when it returns or throws one,
\* and sets isLoading to false when it completes.
C8_OperationContract ==
  [][\A op \in StoreOps :
       /\ (op \notin pending /\ op \in pending')
            => (isLoading' = TRUE /\ error' = Null)
       /\ (op \in pending /\ op \notin pending')
            => /\ isLoading' = FALSE
               /\ lastCall'.ret.threw = FALSE
               /\ (lastCall'.reply.kind = "ok") <=> (lastCall'.ret.error = Null)
               /\ lastCall'.reply.kind # "ok"
                    => /\ lastCall'.ret.error.code \in ErrorCodes
                       /\ lastCall'.ret.error.message = lastCall'.reply.raw.message]_vars

\* C8 witness: an operation whose call threw has returned a classified error.
C8_Witness ==
  /\ lastCall # Null /\ lastCall.reply.kind = "threw"
  /\ lastCall.ret.error # Null /\ lastCall.ret.error.code = "AUTH/UNKNOWN"
  /\ pending = {} /\ isLoading = FALSE

\* C9: when one of the six operations fails, the store's error field holds
\* the classified AppError after the call completes.
C9_FailurePopulatesError ==
  [][\A op \in StoreOps :
       (op \in pending /\ op \notin pending' /\ lastCall'.reply.kind # "ok")
         => error' = lastCall'.ret.error]_vars

\* two strings are equal when compared case-insensitively
EqualsIgnoreCase(a, b) ==
  /\ Len(a) = Len(b)
  /\ \A i \in 1..Len(a) : LowerChar(a[i]) = LowerChar(b[i])

\* C10: once the operation effect has settled, the active operation is the
\* one named (case-insensitively) by the 'op' parameter, and LOGIN when the
\* parameter is missing or names none of the five operations.
C10_OperationFromParam ==
  formPc = "settled" =>
    IF opParam.present /\ \E o \in AuthOperationsEnum : EqualsIgnoreCase(opParam.value, o)
    THEN EqualsIgnoreCase(opParam.value, operation)
    ELSE operation = LOGIN

\* C10 witness: op=FORGOT-PASSWORD has selected FORGOT_PASSWORD.
C10_Witness ==
  /\ formPc = "settled"
  /\ opParam = [present |-> TRUE, value |-> ToUpperCase(FORGOT_PASSWORD)]
  /\ operation = FORGOT_PASSWORD

\* the operation named (case-insensitively) by a parameter value, LOGIN when
\* there is none
Derived(param) ==
  IF param.present /\ \E o \in AuthOperationsEnum : EqualsIgnoreCase(param.value, o)
  THEN CHOOSE o \in AuthOperationsEnum : EqualsIgnoreCase(param.value, o)
  ELSE LOGIN

\* C11: the operation state changes only to the operation derived from the
\* 'op' parameter (user-initiated switches and the switch after a duplicate
\* registration rewrite the parameter), and once the effects have settled
\* the operation equals the one derived from the current parameter,
\* whatever initialOperation was.
C11_ParamIsSourceOfTruth ==
  /\ [](formPc = "settled" => operation = Derived(opParam))
  /\ [][operation' # operation
          => (operation' = Derived(opParam) /\ opParam' = opParam)]_vars

\* C11 witness: "Back to Login" on the email-sent panel of FORGOT_PASSWORD
\* has rewritten the parameter and the operation has followed it.
C11_Witness ==
  /\ formPc = "settled" /\ operation = LOGIN
  /\ opParam = [present |-> TRUE, value |-> LOGIN]
  /\ lastSubmit # Null /\ lastSubmit.operation = FORGOT_PASSWORD
  /\ lastSubmit.outcome.emailSent /\ ~emailSent

\* C12: every transition from an operation to a different one leaves the
\* form with the new operation's default values, error = null and
\* emailSent = false, whatever the fields, the error and the flag were.
C12_TransitionResets ==
  [][operation' # operation
       => /\ formValues' = authFormDefaults(operation')
          /\ formError' = Null
          /\ emailSent' = FALSE]_vars

\* C12 witness: a failed submission had left an error under one operation;
\* the form now shows another operation with its defaults and no error.
C12_Witness ==
  /\ lastSubmit # Null /\ lastSubmit.outcome.error # Null
  /\ operation = REGISTER /\ lastSubmit.operation = UPDATE_PASSWORD
  /\ formPc = "settled"
  /\ formValues = authFormDefaults(REGISTER) /\ formError = Null /\ ~emailSent

\* the failure message of a reply names a duplicate registration
NamesDuplicate(reply) ==
  /\ reply.kind = "failed"
  /\ \/ Includes(ToLowerCase(reply.raw.message), PatAlreadyRegistered)
     \/ Includes(ToLowerCase(reply.raw.message), PatAlreadyInUse)

\* C13: when a REGISTER submission fails with a message containing
\* (case-insensitively) 'already registered' or 'already in use', the form's
\* error stays null and the 'op' parameter is rewritten to login; once the
\* effects have settled on that parameter the operation is LOGIN.
C13_DuplicateRegistrationRedirect ==
  /\ [][(/\ submitting # Null /\ submitting' = Null
         /\ submitting.operation = REGISTER
         /\ NamesDuplicate(lastSubmit'.reply))
        => (/\ formError' = Null
            /\ opParam' = [present |-> TRUE, value |-> LOGIN])]_vars
  /\ []((/\ lastSubmit # Null /\ lastSubmit.operation = REGISTER
         /\ NamesDuplicate(lastSubmit.reply)
         /\ opParam = [present |-> TRUE, value |-> LOGIN]
         /\ formPc = "settled")
        => (operation = LOGIN /\ formError = Null))

\* C13 witness: 'Email Already In Use' answered a REGISTER submission and
\* the form has settled on LOGIN without an error.
C13_Witness ==
  /\ lastSubmit # Null /\ lastSubmit.operation = REGISTER
  /\ lastSubmit.reply.kind = "failed"
  /\ lastSubmit.reply.raw.message = MsgAlreadyInUse
  /\ formPc = "settled" /\ operation = LOGIN /\ formError = Null

\* C14: a submission makes exactly one backend call, the one of its
\* operation, and on success: LOGIN -> /profile, REGISTER -> /auth/confirm,
\* FORGOT_PASSWORD -> emailSent with no navigation and the operation
\* unchanged, RESET_PASSWORD (the store's updatePassword) -> /profile,
\* UPDATE_PASSWORD -> /profile.
C14_DispatchTable ==
  [][(submitting # Null /\ submitting' = Null)
     => LET op == submitting.operation
            ok == lastSubmit'.reply.kind = "ok"
        IN /\ lastSubmit'.calls =
                (CASE op = LOGIN -> <<"signInWithEmail">>
                   [] op = REGISTER -> <<"signUpWithEmail">>
                   [] op = FORGOT_PASSWORD -> <<"requestPasswordReset">>
                   [] op = RESET_PASSWORD -> <<"updatePassword">>
                   [] op = UPDATE_PASSWORD -> <<"updateUserPassword">>)
           /\ (op = RESET_PASSWORD) <=> ("updatePassword" \in pending)
           /\ (ok /\ op \in {LOGIN, RESET_PASSWORD, UPDATE_PASSWORD})
                => route' = [path |-> "/profile"]
           /\ (ok /\ op = REGISTER) => route' = [path |-> "/auth/confirm"]
           /\ (ok /\ op = FORGOT_PASSWORD)
                => (emailSent' /\ route' = route /\ operation' = operation
                    /\ opParam' = opParam)]_vars

\* C14 witness: a FORGOT_PASSWORD submission succeeded; the panel is shown,
\* nothing was pushed and the operation is still FORGOT_PASSWORD.
C14_Witness ==
  /\ lastSubmit # Null /\ lastSubmit.operation = FORGOT_PASSWORD
  /\ lastSubmit.reply.kind = "ok"
  /\ emailSent /\ route = Null /\ operation = FORGOT_PASSWORD

\* C15: when the backend call of a submission throws, the exception is
\* caught, classified and stored as the form error and the promise of
\* handleFormSubmit does not reject; isLoading is false whenever
\* handleFormSubmit completes.
C15_NoEscape ==
  [][(submitting # Null /\ submitting' = Null)
     => /\ formLoading' = FALSE
        /\ ~lastSubmit'.outcome.rejected
        /\ lastSubmit'.reply.kind = "threw"
             => /\ formError' # Null
                /\ formError'.code \in ErrorCodes
                /\ formError'.message = lastSubmit'.reply.raw.message]_vars

\* C15 witness: the server action of an UPDATE_PASSWORD submission threw and
\* the form shows the classified error, not loading.
C15_Witness ==
  /\ lastSubmit # Null /\ lastSubmit.operation = UPDATE_PASSWORD
  /\ lastSubmit.reply.kind = "threw"
  /\ formError # Null /\ formError.message = MsgNetworkFailed
  /\ ~formLoading /\ submitting = Null

C17_ClassifiedOnce ==
  [][(/\ submitting # Null /\ submitting' = Null
      /\ lastSubmit'.reply.kind \in {"failed", "returned"}
      /\ lastSubmit'.reply.raw.app # Null)
     => formError' = lastSubmit'.reply.raw.app]_vars

\* C18: when the form mounts while the 'signout-reason' cookie holds
\* 'user-not-found', the mount effects leave an explanatory error on
\* display and the cookie deleted, whatever the 'op' parameter and
\* initialOperation are. (The mount effects run in one commit; an operation
\* effect that runs after it finds the operation already derived and writes
\* nothing.)
C18_SignOutReasonHandOver ==
  [][(/\ formPc = "mount" /\ formPc' # "mount"
      /\ cookie # Null /\ cookie.value = "user-not-found")
     => (cookie' = Null /\ formError' # Null)]_vars

\* C19: when token_hash or type is absent while the confirmation view is
\* mounted, the view shows the invalid-link state and no verifyOtp call is
\* issued, however often its effect runs.
C19_NoExchangeWithoutToken ==
  (~cvParams.token_hash.present \/ ~cvParams.type.present)
    => (ConfirmView = "invalid-token" /\ cvIssued = <<>> /\ cvPending = <<>>)

\* C19 witness: a link with a token_hash but no type; the effect has run,
\* also after useSearchParams returned a new object, and nothing was issued.
C19_Witness ==
  /\ cvParams.token_hash = [present |-> TRUE, value |-> "h1"]
  /\ ~cvParams.type.present
  /\ cvLifecycle = "mounted" /\ ~cvEffectDue /\ cvRenewals > 0
  /\ cvIssued = <<>> /\ ConfirmView = "invalid-token"

\* C20: one mounted confirmation view with one token issues the token
\* exchange exactly once, however often it re-renders or its effect runs
\* again with the same token_hash and type.
C20_ExchangeOnce ==
  /\ Len(cvIssued) <= 1
  /\ (cvLifecycle = "mounted" /\ ~cvEffectDue /\ ~hasInvalidToken(cvParams))
       => Len(cvIssued) = 1

\* C21: the confirmation view's status goes from loading to success or to
\* error only; once it is success or error it never changes again for the
\* lifetime of the mount.
C21_TerminalStatus ==
  [][(cvStatus = "success" \/ cvStatus = "error")
       => cvStatus' = cvStatus]_vars

\* the names of a URL's query parameters
QueryNames(url) == {url.query[i][1] : i \in 1..Len(url.query)}

QueryHas(url, name, value) ==
  \E i \in 1..Len(url.query) : url.query[i] = <<name, value>>

\* C22: when token_hash and type are both present and the identity provider
\* accepts them, the route answers with a redirect to the 'next' target
\* (/profile when 'next' is absent or empty) whose query string contains
\* verified=true and neither token_hash nor type.
C22_SuccessRedirect ==
  (rtPc = "responded" /\ rtReply = [kind |-> "accepted"])
    => /\ rtResponse.kind = "redirect"
       /\ LET url == rtResponse.url
              next == rtRequest.next
              target == NewURL(next.value, rtRequest.origin)
          IN /\ IF ~next.present \/ next.value = <<>>
                  THEN url.origin = rtRequest.origin
                       /\ url.pathname = ProfilePath
                  ELSE url.origin = target.origin
                       /\ url.pathname = target.pathname
             /\ QueryHas(url, KeyVerified, ValTrue)
             /\ KeyTokenHash \notin QueryNames(url)
             /\ KeyType \notin QueryNames(url)

\* C22 witness: an accepted link whose 'next' target carried token_hash and
\* type of its own has been answered.
C22_Witness ==
  /\ rtPc = "responded" /\ rtReply = [kind |-> "accepted"]
  /\ rtRequest.next.value = NextWithSecrets
  /\ QueryHas(rtResponse.url, <<"t", "a", "b">>, <<"2">>)

\* C23: on every failure (token_hash missing, type missing, or the identity
\* provider rejecting the token) the route answers with a redirect to the
\* error page, and the URL carries a 'code' parameter with a value.
C23_FailureRedirect ==
  (rtPc = "responded" /\ rtReply # [kind |-> "accepted"])
    => /\ rtResponse.kind = "redirect"
       /\ rtResponse.url.pathname = ErrorPagePath
       /\ \E i \in 1..Len(rtResponse.url.query) :
            /\ rtResponse.url.query[i][1] = KeyCode
            /\ rtResponse.url.query[i][2] # <<>>

\* C23 witness: a link with a token_hash and no type has been answered.
C23_Witness ==
  /\ rtPc = "responded" /\ rtReply = Null
  /\ ~Falsy(rtRequest.token_hash) /\ ~rtRequest.type.present
  /\ QueryHas(rtResponse.url, KeyCode, CodeInvalidLink)

\* C30: every redirect the confirmation route issues targets the origin of
\* the incoming request, whatever the 'next' parameter holds.
C30_SameOriginRedirect ==
  (rtResponse # Null /\ rtResponse.kind = "redirect")
    => rtResponse.url.origin = rtRequest.origin

\* C24: once a check has observed the email as confirmed (status
\* 'verified'), the poll issues no further check for that mount.
C24_PollStopsOnceVerified ==
  [][vsStatus = "verified" => vsChecks' = vsChecks]_vars

\* the initial session check is between its first await and its end
CheckInFlight == checkPc \in {"getSession", "getUser", "signOut"}

\* C25: after signIn() or signOut() has returned {error: null}, once the
\* store is at rest (no event undelivered, no check or operation in flight)
\* its session and authUser equal the identity source's session and user.
C25_StoreFollowsSignInOut ==
  (/\ lastCall # Null
   /\ (lastCall.op = "signIn" \/ lastCall.op = "signOut")
   /\ lastCall.ret = [threw |-> FALSE, error |-> Null]
   /\ isMounted /\ queue = <<>> /\ pending = {} /\ ~CheckInFlight)
    => (session = srcSession /\ authUser = UserOf(srcSession))

\* C26: in every reachable state of the auth form, emailSent = true implies
\* that the active operation is FORGOT_PASSWORD.
C26_EmailSentOnlyOnForgotPassword ==
  emailSent => operation = FORGOT_PASSWORD

\* C27: the store's isLoading flag is true whenever the initial session
\* check or one of the store's operations is still in flight.
C27_LoadingWhileInFlight ==
  (isMounted /\ (CheckInFlight \/ pending # {})) => isLoading

\* C28: ProtectedRoute never navigates to the login path while the store's
\* initial session check is still in flight.
C28_NoRedirectDuringCheck ==
  [][prPushes' # prPushes => ~CheckInFlight]_vars

\* C29: ServerAuth with a checkAccess callback renders its children only
\* after checkAccess has resolved to true for the current authentication
\* state: never while the check is pending, nor after false or a throw.
C29_ChildrenOnlyAfterAccess ==
  (saLifecycle = "mounted" /\ AccessView = "children")
    => (saHasAccess = "true" /\ saGrantedFor = AuthState)

====
